---- MODULE Spec2Model ----
(***************************************************************************)
(* Model of pump-fun-streams: the Collection Loop (src/app.py run_scraper  *)
(* and src/scraper/live_streams_viewercount.py main), the two-stage fetch  *)
(* fetch_live_streams, and the Featured Reconciler get_streams of          *)
(* src/app.py, coordinating through four persisted JSON files.             *)
(*                                                                         *)
(* Strings that the code builds by formatting or rewrites by substring    *)
(* replacement are sequences of segments, so that f"Live Stream of {n}"    *)
(* is <<"Live Stream of ", n>> and "Unknown Title" is <<"Unknown Title">>. *)
(***************************************************************************)
EXTENDS Integers, Sequences, FiniteSets, TLC

\* ------------------------------------------------------------------ bounds
\* Page size passed by run_scraper / main (limit=60), scaled down.
Limit == 2
\* Number of coins the listing endpoint serves in one cycle, over all pages.
MaxListed == 3
\* The same, in the cycles that Spec takes in one step.
CycleListed == 2
\* Length of featured.json.
MaxFeatured == 2
\* Number of cycles that SpecScraper follows step by step.
MaxCycles == 1
\* The 1-second checkpoints of the normal wait (for _ in range(90)), scaled down.
SleepChecks == 2
\* Number of coins the listing endpoint serves in one cycle of SpecPaging.
PagedListed == 5
\* Number of cycles that SpecPaging follows.
PagedCycles == 2
\* Number of page requests of one cycle that raise.
MaxPageErrors == 1
\* Number of request threads that run get_streams at the same time.
Calls == 2

\* ------------------------------------------------------------ environment
Ids == {"A", "B"}

\* Objects of the listing endpoint's response (fields mint, name, image_uri).
\* CoinB has no name, so coin.get("name", "Unknown") takes its default.
CoinA == [mint |-> "A", name |-> "Ann",
          image_uri |-> <<"https://", "ipfs.io/ipfs/", "a.png">>]
CoinB == [mint |-> "B",
          image_uri |-> <<"https://", "cf-ipfs.com/ipfs/", "b.png">>]
Coins == {CoinA, CoinB}

\* JSON bodies of the detail endpoint (fields numParticipants, isLive, title;
\* each may be absent).
DetailBodies ==
    { [numParticipants |-> 7, isLive |-> TRUE, title |-> <<"T1">>],
      [isLive |-> TRUE],
      [isLive |-> TRUE, title |-> << >>],
      [title |-> <<"T1">>] }

\* What one GET of the detail endpoint can end in: a response with a status,
\* or an exception (a timeout, a transport error).
DetailResponses ==
    { [outcome |-> "response", status |-> 200, body |-> b] : b \in DetailBodies }
    \cup { [outcome |-> "response", status |-> 500, body |-> [isLive |-> TRUE]],
           [outcome |-> "timeout", status |-> 0, body |-> [isLive |-> TRUE]],
           [outcome |-> "error", status |-> 0, body |-> [isLive |-> TRUE]] }

\* dict.get(key, default)
Get(d, key, default) == IF key \in DOMAIN d THEN d[key] ELSE default

\* Python truthiness of a string: `x or y`
Or(x, y) == IF x # << >> THEN x ELSE y

UnknownTitle == <<"Unknown Title">>
FallbackTitle(name) == <<"Live Stream of ", name>>

\* ---------------------------------------------------------------- scraper
\* thumbnail.replace(old, new), on segments
Replace(s, old, new) == [i \in 1..Len(s) |-> IF s[i] = old THEN new ELSE s[i]]
Contains(s, seg) == \E i \in 1..Len(s) : s[i] = seg

\* app.py 126-130: the IPFS gateway rewrite (absent from the scraper script)
RewriteThumbnail(thumbnail) ==
    IF thumbnail # << >> /\ Contains(thumbnail, "ipfs.io/ipfs/")
    THEN Replace(thumbnail, "ipfs.io/ipfs/", "dweb.link/ipfs/")
    ELSE IF thumbnail # << >> /\ Contains(thumbnail, "cf-ipfs.com/ipfs/")
    THEN Replace(thumbnail, "cf-ipfs.com/ipfs/", "dweb.link/ipfs/")
    ELSE thumbnail

\* The dict appended to all_streams for one coin of a page.
Candidate(coin, v) ==
    [title |-> UnknownTitle,
     streamerName |-> Get(coin, "name", "Unknown"),
     gameCategory |-> "Crypto",
     mintId |-> coin.mint,
     url |-> <<"https://pump.fun/", coin.mint>>,
     thumbnail |-> IF v = "app" THEN RewriteThumbnail(Get(coin, "image_uri", << >>))
                   ELSE Get(coin, "image_uri", << >>),
     viewers |-> 0,
     isLive |-> FALSE]

\* Mutant of PageCandidates: the blacklist is not consulted.
RECURSIVE PageCandidates_NoFilter(_, _, _)
PageCandidates_NoFilter(data, bl, v) ==
    IF data = << >> THEN << >>
    ELSE <<Candidate(Head(data), v)>> \o PageCandidates_NoFilter(Tail(data), bl, v)

\* for coin in data: skip blacklisted, append a candidate
RECURSIVE PageCandidates(_, _, _)
PageCandidates(data, bl, v) ==
    IF data = << >> THEN << >>
    ELSE IF Head(data).mint \in bl THEN PageCandidates(Tail(data), bl, v)
    ELSE <<Candidate(Head(data), v)>> \o PageCandidates(Tail(data), bl, v)

\* Mutant of FetchStreamDetail: a failure resets the viewer count only.
FetchStreamDetail_KeepsLive(s, resp) ==
    IF resp.outcome = "response" /\ resp.status = 200
    THEN [s EXCEPT !.viewers = Get(resp.body, "numParticipants", 0),
                   !.isLive = Get(resp.body, "isLive", FALSE),
                   !.title = Or(Get(resp.body, "title", << >>), s.title)]
    ELSE [s EXCEPT !.viewers = 0]

\* fetch_stream_detail: the first, concurrent detail request of one candidate.
\* An exception of the request, or of resp.json() on a body that is no JSON,
\* is caught inside.
FetchStreamDetail(s, resp) ==
    IF resp.outcome = "response" /\ resp.status = 200
    THEN [s EXCEPT !.viewers = Get(resp.body, "numParticipants", 0),
                   !.isLive = Get(resp.body, "isLive", FALSE),
                   !.title = Or(Get(resp.body, "title", << >>), s.title)]
    ELSE [s EXCEPT !.viewers = 0, !.isLive = FALSE]

\* The body of the sequential retry for one stream whose title is unresolved.
\* A non-200 status takes neither branch: nothing is assigned.
RetryDetail(s, resp) ==
    IF resp.outcome = "response"
    THEN IF resp.status = 200
         THEN [s EXCEPT !.title = Or(Get(resp.body, "title", << >>),
                                     FallbackTitle(s.streamerName)),
                        !.viewers = Get(resp.body, "numParticipants", 0),
                        !.isLive = Get(resp.body, "isLive", FALSE)]
         ELSE s
    ELSE [s EXCEPT !.title = FallbackTitle(s.streamerName)]

\* if stream["title"] == "Unknown Title": retry
RetryStep(s, resp) == IF s.title = UnknownTitle THEN RetryDetail(s, resp) ELSE s

\* Mutant of LiveFilter: every candidate is returned.
LiveFilter_All(all) == all

\* live_streams = [s for s in all_streams if s["isLive"]]
LiveFilter(all) == SelectSeq(all, LAMBDA s : s.isLive)


\* ------------------------------------------- one cycle, as a set of results
BoundedSeq(S, n) == UNION { [1..k -> S] : k \in 0..n }

Min(a, b) == IF a < b THEN a ELSE b

\* One cycle's behaviour of the listing endpoint: the coins it serves, in
\* pages of Limit, and the page request that fails (0: none does).
ListingRuns ==
    { [coins |-> L, failAt |-> k] :
        L \in BoundedSeq(Coins, CycleListed), k \in 0..((CycleListed \div Limit) + 1) }

\* The paging loop of fetch_live_streams in app.py, where every exception of a
\* page request breaks out of the loop.
RECURSIVE Paging(_, _, _, _)
Paging(run, bl, off, acc) ==
    IF run.failAt = (off \div Limit) + 1 THEN acc
    ELSE LET data == SubSeq(run.coins, off + 1, Min(off + Limit, Len(run.coins)))
             acc2 == acc \o PageCandidates(data, bl, "app")
         IN  IF data = << >> THEN acc
             ELSE IF Len(data) < Limit THEN acc2
             ELSE Paging(run, bl, off + Limit, acc2)

\* The answers of the detail endpoint in the cycles that Spec takes in one
\* step: a full answer, an answer without a title, a timeout.
CycleResponses ==
    { r \in DetailResponses :
        \/ r.outcome = "timeout"
        \/ r.outcome = "response" /\ r.status = 200 /\ "isLive" \in DOMAIN r.body
           /\ Get(r.body, "title", <<"T1">>) # << >> }

\* The states one candidate can be in after gather and the retry pass.
FinalStates(c) ==
    { RetryStep(FetchStreamDetail(c, r1), r2) :
        r1 \in CycleResponses, r2 \in CycleResponses }

\* The detail requests touch only their own candidate, so the states of
\* all_streams after enrichment are the products of the candidates' states.
Enrichments(cands) ==
    LET U == UNION { FinalStates(cands[i]) : i \in 1..Len(cands) }
    IN  { e \in [1..Len(cands) -> U] :
            \A i \in 1..Len(cands) : e[i] \in FinalStates(cands[i]) }

\* The values fetch_live_streams can return when it observes no shutdown,
\* for each blacklist loaded at the start of the cycle.
FetchResults ==
    { [blacklist |-> bl,
       results |-> UNION { { LiveFilter(e) : e \in Enrichments(Paging(run, bl, 0, << >>)) } :
                             run \in ListingRuns }] : bl \in SUBSET Ids }

FetchLiveStreams(bl) == (CHOOSE r \in FetchResults : r.blacklist = bl).results

\* ----------------------------------------------------- Featured Reconciler
\* The dict stored in featured_cache[mint_id] for a live featured stream.
CacheEntry(s) ==
    [title |-> Get(s, "title", <<"Unknown Stream">>),
     thumbnail |-> Get(s, "thumbnail", << >>),
     viewerCount |-> Get(s, "viewers", 0),
     streamerName |-> Get(s, "streamerName", "Unknown"),
     gameCategory |-> Get(s, "gameCategory", "Unknown"),
     url |-> Get(s, "url", <<"#">>),
     mintId |-> s.mintId]

\* featured_cache[k] = v
Upsert(cache, k, v) ==
    [x \in (DOMAIN cache) \cup {k} |-> IF x = k THEN v ELSE cache[x]]

\* Mutant of RefreshCache: an entry already cached is not overwritten.
RECURSIVE RefreshCache_KeepOld(_, _, _)
RefreshCache_KeepOld(strs, featured_ids, cache) ==
    IF strs = << >> THEN cache
    ELSE LET s == Head(strs)
             c2 == IF s.mintId \in featured_ids /\ Get(s, "isLive", FALSE)
                      /\ s.mintId \notin DOMAIN cache
                   THEN Upsert(cache, s.mintId, CacheEntry(s))
                   ELSE cache
         IN  RefreshCache_KeepOld(Tail(strs), featured_ids, c2)

\* Mutant of RefreshCache: the viewer count adds up over the refreshes.
RECURSIVE RefreshCache_Accumulate(_, _, _)
RefreshCache_Accumulate(strs, featured_ids, cache) ==
    IF strs = << >> THEN cache
    ELSE LET s == Head(strs)
             old == IF s.mintId \in DOMAIN cache THEN cache[s.mintId].viewerCount ELSE 0
             c2 == IF s.mintId \in featured_ids /\ Get(s, "isLive", FALSE)
                   THEN Upsert(cache, s.mintId,
                               [CacheEntry(s) EXCEPT !.viewerCount = @ + old])
                   ELSE cache
         IN  RefreshCache_Accumulate(Tail(strs), featured_ids, c2)

\* for s in streams: update the cache with the live featured streams
RECURSIVE RefreshCache(_, _, _)
RefreshCache(strs, featured_ids, cache) ==
    IF strs = << >> THEN cache
    ELSE LET s == Head(strs)
             c2 == IF s.mintId \in featured_ids /\ Get(s, "isLive", FALSE)
                   THEN Upsert(cache, s.mintId, CacheEntry(s))
                   ELSE cache
         IN  RefreshCache(Tail(strs), featured_ids, c2)

\* Mutant of EvictCache: nothing is evicted.
EvictCache_Keep(cache, featured_ids) == cache

\* {k: v for k, v in featured_cache.items() if k in featured_ids}
EvictCache(cache, featured_ids) ==
    [k \in (DOMAIN cache) \cap featured_ids |-> cache[k]]

\* The public item of one Snapshot item.
StreamData(s, featured_ids) ==
    [title |-> Get(s, "title", <<"Unknown Stream">>),
     thumbnail |-> Get(s, "thumbnail", << >>),
     viewerCount |-> Get(s, "viewers", 0),
     streamerName |-> Get(s, "streamerName", "Unknown"),
     gameCategory |-> Get(s, "gameCategory", "Unknown"),
     url |-> Get(s, "url", <<"#">>),
     featured |-> s.mintId \in featured_ids,
     isLive |-> Get(s, "isLive", FALSE)]

\* Mutant of ProcessStreams: the blacklist is not consulted.
RECURSIVE ProcessStreams_NoFilter(_, _, _)
ProcessStreams_NoFilter(strs, bl, featured_ids) ==
    IF strs = << >> THEN << >>
    ELSE <<StreamData(Head(strs), featured_ids)>>
         \o ProcessStreams_NoFilter(Tail(strs), bl, featured_ids)

\* for s in streams: skip blacklisted, append stream_data
RECURSIVE ProcessStreams(_, _, _)
ProcessStreams(strs, bl, featured_ids) ==
    IF strs = << >> THEN << >>
    ELSE IF Head(strs).mintId \in bl
    THEN ProcessStreams(Tail(strs), bl, featured_ids)
    ELSE <<StreamData(Head(strs), featured_ids)>>
         \o ProcessStreams(Tail(strs), bl, featured_ids)

\* featured_mint_ids_processed after the loop over the streams
ProcessedIds(strs, bl, featured_ids) ==
    { strs[i].mintId : i \in { j \in 1..Len(strs) :
        strs[j].mintId \notin bl /\ strs[j].mintId \in featured_ids } }

\* The public item synthesized from one cache entry.
OfflineItem(cached) ==
    [title |-> Get(cached, "title", <<"Unknown Stream">>),
     thumbnail |-> Get(cached, "thumbnail", << >>),
     viewerCount |-> 0,
     streamerName |-> Get(cached, "streamerName", "Unknown"),
     gameCategory |-> Get(cached, "gameCategory", "Unknown"),
     url |-> Get(cached, "url", <<"#">>),
     featured |-> TRUE,
     isLive |-> FALSE]

\* Mutant of Backfill: the ids the live pass processed are not skipped.
RECURSIVE Backfill_All(_, _, _)
Backfill_All(order, processed, cache) ==
    IF order = << >> THEN << >>
    ELSE IF Head(order) \in DOMAIN cache
    THEN <<OfflineItem(cache[Head(order)])>> \o Backfill_All(Tail(order), processed, cache)
    ELSE Backfill_All(Tail(order), processed, cache)

\* for mint_id in <iteration order of the set featured_ids>: add the offline
\* featured streams that have a cache entry
RECURSIVE Backfill(_, _, _)
Backfill(order, processed, cache) ==
    IF order = << >> THEN << >>
    ELSE IF Head(order) \notin processed /\ Head(order) \in DOMAIN cache
    THEN <<OfflineItem(cache[Head(order)])>> \o Backfill(Tail(order), processed, cache)
    ELSE Backfill(Tail(order), processed, cache)

\* set(json.load(f)) of a list
Range(s) == { s[i] : i \in 1..Len(s) }


\* ------------------------------------------------------------------ state
VARIABLES
    streamsFile,    \* pumpfun_streams.json: [exists, items, complete]
    blacklistFile,  \* blacklist.json, as the set it is loaded into
    featuredFile,   \* featured.json: a list of mintIds
    cacheFile,      \* featured_cache.json: mintId -> cached entry
    cacheBroken,    \* featured_cache.json does not parse (truncated, partial or torn)
    hashOrder,      \* the order in which this process iterates a set of mintIds
    frame,          \* the locals and the response of the get_streams call just made
                    \* (again: the step before it was a get_streams call too)
    calls,          \* per request thread, the position and the locals of its get_streams call
    variant,        \* "app": src/app.py, "scraper": the stand-alone script
    shutdown_flag,  \* the module global
    pc,             \* position of the Collection Loop
    blacklist,      \* fetch_live_streams: the blacklist loaded for this cycle
    all_streams,    \* fetch_live_streams: the candidates
    offset,         \* fetch_live_streams: the paging cursor
    pending,        \* indexes of all_streams whose gathered detail task has not finished
    retry_idx,      \* position of the retry loop in all_streams
    streams,        \* run_scraper: the value fetch_live_streams returned
    ticks,          \* run_scraper: checkpoints of the wait that have passed
    cycles,         \* number of cycles started
    attempts,       \* per candidate, what its detail requests ended in
    skipped,        \* the pages of this cycle on which a blacklisted coin was skipped
    requests,       \* the page requests of this cycle: offset, items returned (-1: it raised)
    env             \* what the endpoints serve in this run: [listed, coins, details, cycles]

files == <<streamsFile, blacklistFile, featuredFile, cacheFile, cacheBroken>>
reader == <<hashOrder, frame, calls>>
cycle == <<blacklist, all_streams, offset, pending, retry_idx, attempts, skipped, requests>>
loop == <<variant, env, shutdown_flag, pc, streams, ticks, cycles>>
vars == <<files, reader, cycle, loop>>

Missing == [exists |-> FALSE, items |-> << >>, complete |-> FALSE]
Truncated == [exists |-> TRUE, items |-> << >>, complete |-> FALSE]
EmptyCache == << >>

\* An entry that an earlier run of the service left in featured_cache.json.
OldEntry ==
    [title |-> <<"Old">>, thumbnail |-> << >>, viewerCount |-> 3,
     streamerName |-> "Ann", gameCategory |-> "Crypto",
     url |-> <<"https://pump.fun/", "A">>, mintId |-> "A"]

Orders(S) ==
    { s \in [1..Cardinality(S) -> S] : \A i, j \in 1..Cardinality(S) : s[i] = s[j] => i = j }

\* No get_streams call has just been made.
NoFrame ==
    [outcome |-> "none", again |-> FALSE,
     streams |-> << >>, blacklist |-> {}, featured_ids |-> {},
     loaded |-> EmptyCache, featured_cache |-> EmptyCache,
     live |-> << >>, offline |-> << >>, response |-> [streams |-> << >>]]

\* No get_streams call is running in this thread.
NoCall ==
    [pc |-> "idle", streams |-> << >>, blacklist |-> {}, featured_ids |-> {},
     featured_cache |-> EmptyCache, torn |-> FALSE, response |-> [streams |-> << >>]]

\* The request threads that run get_streams at the same time.
Callers == 1..Calls

\* initialize_files creates blacklist.json, featured.json and
\* featured_cache.json when they do not exist; a cache file of an earlier run
\* is kept. The snapshot is not created before the first cycle writes it.
InitFiles ==
    /\ streamsFile = Missing
    /\ blacklistFile = {}
    /\ featuredFile = << >>
    /\ cacheFile \in {EmptyCache, [k \in {"A"} |-> OldEntry]}

InitLoop ==
    /\ shutdown_flag = FALSE
    /\ pc = "loop"
    /\ blacklist = {}
    /\ all_streams = << >>
    /\ offset = 0
    /\ pending = {}
    /\ retry_idx = 0
    /\ streams = << >>
    /\ ticks = 0
    /\ cycles = 0
    /\ attempts = << >>
    /\ skipped = {}
    /\ requests = << >>

\* What the two endpoints serve in the runs of Spec and SpecScraper.
FullEnv ==
    [listed |-> MaxListed, coins |-> Coins, details |-> DetailResponses,
     cycles |-> MaxCycles]

Init ==
    /\ InitFiles
    /\ InitLoop
    /\ variant = "app"
    /\ env = FullEnv
    /\ hashOrder \in Orders(Ids)
    /\ frame = NoFrame
    /\ calls = [r \in Callers |-> NoCall]
    /\ cacheBroken = FALSE

\* ------------------------------------------ the operator's edits of the lists
\* featured.json holds a list of distinct mintIds.
FeaturedLists ==
    { f \in BoundedSeq(Ids, MaxFeatured) : \A i, j \in 1..Len(f) : f[i] = f[j] => i = j }

EditBlacklist ==
    /\ \E b \in SUBSET Ids : b # blacklistFile /\ blacklistFile' = b
    /\ frame' = NoFrame
    /\ UNCHANGED <<streamsFile, featuredFile, cacheFile, cacheBroken, hashOrder, calls, cycle, loop>>

EditFeatured ==
    /\ \E f \in FeaturedLists : f # featuredFile /\ featuredFile' = f
    /\ frame' = NoFrame
    /\ UNCHANGED <<streamsFile, blacklistFile, cacheFile, cacheBroken, hashOrder, calls, cycle, loop>>

\* ------------------------------------------------------------ get_streams
\* Iteration over set(load_featured_list()): the order of a hash set.
SetIter(S) == SelectSeq(hashOrder, LAMBDA x : x \in S)

\* load_featured_cache: a file that does not parse is loaded as {}
LoadFeaturedCache == IF cacheBroken THEN EmptyCache ELSE cacheFile

get_streams ==
    /\ IF ~streamsFile.exists
       THEN /\ frame' = [NoFrame EXCEPT !.outcome = "missing",
                                        !.again = frame.outcome # "none"]
            /\ UNCHANGED <<cacheFile, cacheBroken>>
       ELSE IF ~streamsFile.complete
       THEN /\ frame' = [NoFrame EXCEPT
                           !.outcome = "failed",
                           !.again = frame.outcome # "none",
                           !.response = [streams |-> << >>,
                                         error |-> "Failed to load streams"]]
            /\ UNCHANGED <<cacheFile, cacheBroken>>
       ELSE LET strs == streamsFile.items
                bl == blacklistFile
                featured_ids == Range(featuredFile)
                loaded == LoadFeaturedCache
                featured_cache ==
                    EvictCache(RefreshCache(strs, featured_ids, loaded), featured_ids)
                live == ProcessStreams(strs, bl, featured_ids)
                processed == ProcessedIds(strs, bl, featured_ids)
                offline == Backfill(SetIter(featured_ids), processed, featured_cache)
            IN  /\ cacheFile' = featured_cache
                /\ cacheBroken' = FALSE
                /\ frame' = [outcome |-> "ok", again |-> frame.outcome # "none",
                             streams |-> strs, blacklist |-> bl,
                             featured_ids |-> featured_ids, loaded |-> loaded,
                             featured_cache |-> featured_cache,
                             live |-> live, offline |-> offline,
                             response |-> [streams |-> live \o offline]]
    /\ UNCHANGED <<streamsFile, blacklistFile, featuredFile, hashOrder, calls, cycle, loop>>

\* ------------------------------------------------- the write of a snapshot
\* Between open(STREAMS_FILE, "w") and the end of the with block the file holds
\* a prefix of the JSON array, which does not parse whatever its length: the
\* model keeps the file as Truncated until it is closed.
\* The with block ends: the rest is flushed and the file is closed.
CloseSnapshot ==
    /\ pc = "writing"
    /\ streamsFile' = [exists |-> TRUE, items |-> streams, complete |-> TRUE]
    /\ pc' = "sleeping"
    /\ ticks' = 0
    /\ streams' = << >>
    /\ frame' = NoFrame
    /\ UNCHANGED <<blacklistFile, featuredFile, cacheFile, cacheBroken, hashOrder, calls, cycle,
                   variant, env, shutdown_flag, cycles>>

\* Mutant of AfterExcept: a failed cycle is followed by the normal wait.
AfterExcept_Wait == "sleeping"

\* except Exception: if not shutdown_flag: await asyncio.sleep(30); continue
AfterExcept == IF shutdown_flag THEN "loop" ELSE "backoff"

\* json.dump raises part-way (an I/O error): except Exception
DumpFails ==
    /\ pc = "writing"
    /\ pc' = AfterExcept
    /\ streams' = << >>
    /\ frame' = NoFrame
    /\ UNCHANGED <<files, hashOrder, calls, cycle, variant, env, shutdown_flag, ticks, cycles>>

\* await asyncio.sleep(30); continue
BackOff ==
    /\ pc = "backoff"
    /\ pc' = "loop"
    /\ frame' = NoFrame
    /\ UNCHANGED <<files, hashOrder, calls, cycle, variant, env, shutdown_flag, streams, ticks, cycles>>

\* ------------------------------------- the Collection Loop, cycle by cycle
\* A result of fetch_live_streams that the listing of this run can give: it
\* serves env.listed coins at most, out of env.coins.
Served(res) ==
    /\ Len(res) <= env.listed
    /\ \A i \in 1..Len(res) : \E c \in env.coins : res[i].mintId = c.mint

\* One iteration of run_scraper up to the open of the snapshot file:
\* fetch_live_streams runs to its return, and open(STREAMS_FILE, "w")
\* truncates the file.
CollectCycle ==
    /\ pc = "loop"
    /\ ~shutdown_flag
    /\ \E res \in FetchLiveStreams(blacklistFile) : Served(res) /\ streams' = res
    /\ streamsFile' = Truncated
    /\ pc' = "writing"
    /\ frame' = NoFrame
    /\ UNCHANGED <<blacklistFile, featuredFile, cacheFile, cacheBroken, hashOrder, calls, cycle,
                   variant, env, shutdown_flag, ticks, cycles>>

\* open(STREAMS_FILE, "w") raises: except Exception
OpenFails ==
    /\ pc = "loop"
    /\ ~shutdown_flag
    /\ pc' = AfterExcept
    /\ frame' = NoFrame
    /\ UNCHANGED <<files, hashOrder, calls, cycle, variant, env, shutdown_flag, streams, ticks, cycles>>

\* for _ in range(90): await asyncio.sleep(1), with no shutdown requested
Wait ==
    /\ pc = "sleeping"
    /\ ~shutdown_flag
    /\ pc' = "loop"
    /\ frame' = NoFrame
    /\ UNCHANGED <<files, hashOrder, calls, cycle, variant, env, shutdown_flag, streams, ticks, cycles>>

Next ==
    \/ get_streams
    \/ EditBlacklist
    \/ EditFeatured
    \/ CollectCycle
    \/ OpenFails
    \/ CloseSnapshot
    \/ DumpFails
    \/ BackOff
    \/ Wait

Spec == Init /\ [][Next]_vars


\* ------------------------------------- the Collection Loop, step by step
\* What a detail request ended in, for the candidate it was made for: a 200
\* answer with a non-empty title, a 200 answer without one, or a failure.
Outcome(resp) ==
    IF resp.outcome = "response" /\ resp.status = 200
    THEN IF Get(resp.body, "title", << >>) # << >> THEN "ok" ELSE "untitled"
    ELSE "failed"

NoAttempt == [first |-> "none", retry |-> "none"]

\* while not shutdown_flag, a new iteration: fetch_live_streams is entered and
\* loads the blacklist.
StartCycle ==
    /\ pc = "loop"
    /\ ~shutdown_flag
    /\ cycles < env.cycles
    /\ cycles' = cycles + 1
    /\ blacklist' = blacklistFile
    /\ all_streams' = << >>
    /\ offset' = 0
    /\ pending' = {}
    /\ retry_idx' = 0
    /\ attempts' = << >>
    /\ skipped' = {}
    /\ requests' = << >>
    /\ pc' = "paging"
    /\ UNCHANGED <<files, reader, variant, env, shutdown_flag, streams, ticks>>

\* while not shutdown_flag is false: the loop ends
LoopExit ==
    /\ pc = "loop"
    /\ shutdown_flag
    /\ pc' = "stopped"
    /\ UNCHANGED <<files, reader, cycle, variant, env, shutdown_flag, streams, ticks, cycles>>

\* Mutant of LastPage: only an empty page ends the paging.
LastPage_EmptyOnly(data) == data = << >>

\* if not data: break ... if len(data) < limit: break
LastPage(data) == data = << >> \/ Len(data) < Limit

\* The page requests of this cycle that raised.
PageErrors == { k \in 1..Len(requests) : requests[k].returned = -1 }

\* One page request that returns data.
ListPage ==
    /\ pc = "paging"
    /\ ~shutdown_flag
    /\ \E data \in BoundedSeq(env.coins, Limit) :
         /\ offset + Len(data) <= env.listed
         /\ requests' = Append(requests, [offset |-> offset, returned |-> Len(data)])
         /\ skipped' = IF \E i \in 1..Len(data) : data[i].mint \in blacklist
                       THEN skipped \cup {(offset \div Limit) + 1}
                       ELSE skipped
         /\ IF data = << >>
            THEN UNCHANGED <<all_streams, attempts>>
            ELSE /\ all_streams' = all_streams \o PageCandidates(data, blacklist, variant)
                 /\ attempts' = [i \in 1..Len(all_streams') |-> NoAttempt]
         /\ IF LastPage(data)
            THEN pc' = "enrich" /\ UNCHANGED offset
            ELSE pc' = "paging" /\ offset' = offset + Limit
    /\ UNCHANGED <<files, reader, blacklist, pending, retry_idx,
                   variant, env, shutdown_flag, streams, ticks, cycles>>

\* One page request that raises. The scraper script sleeps 2 seconds and asks
\* again after a timeout; every other exception ends the paging.
ListPageFails ==
    /\ pc = "paging"
    /\ ~shutdown_flag
    /\ Cardinality(PageErrors) < MaxPageErrors
    /\ requests' = Append(requests, [offset |-> offset, returned |-> -1])
    /\ \E kind \in {"timeout", "error"} :
         IF variant = "scraper" /\ kind = "timeout"
         THEN pc' = "paging"
         ELSE pc' = "enrich"
    /\ UNCHANGED <<files, reader, blacklist, all_streams, offset, pending, retry_idx,
                   attempts, skipped, variant, env, shutdown_flag, streams, ticks, cycles>>

\* A page whose JSON is not a list of objects: coin.get raises in the loop
\* body, outside the try of the request, and fetch_live_streams is left by the
\* exception, which run_scraper catches.
ListPageMalformed ==
    /\ pc = "paging"
    /\ ~shutdown_flag
    /\ pc' = AfterExcept
    /\ UNCHANGED <<files, reader, cycle, variant, env, shutdown_flag, streams, ticks, cycles>>

\* while not shutdown_flag is false: the paging ends
PagingShutdown ==
    /\ pc = "paging"
    /\ shutdown_flag
    /\ pc' = "enrich"
    /\ UNCHANGED <<files, reader, cycle, variant, env, shutdown_flag, streams, ticks, cycles>>

\* if include_viewers and not shutdown_flag: one task per candidate
StartGather ==
    /\ pc = "enrich"
    /\ IF ~shutdown_flag
       THEN pc' = "gather" /\ pending' = 1..Len(all_streams)
       ELSE pc' = "return" /\ UNCHANGED pending
    /\ UNCHANGED <<files, reader, blacklist, all_streams, offset, retry_idx, attempts,
                   skipped, requests, variant, env, shutdown_flag, streams, ticks, cycles>>

\* One fetch_stream_detail task finishes, in any order.
DetailDone ==
    /\ pc = "gather"
    /\ \E i \in pending, resp \in env.details :
         /\ all_streams' = [all_streams EXCEPT ![i] = FetchStreamDetail(@, resp)]
         /\ attempts' = [attempts EXCEPT ![i].first = Outcome(resp)]
         /\ pending' = pending \ {i}
    /\ UNCHANGED <<files, reader, blacklist, offset, retry_idx, skipped, requests,
                   variant, env, shutdown_flag, pc, streams, ticks, cycles>>

\* await asyncio.gather(*tasks) returns
GatherDone ==
    /\ pc = "gather"
    /\ pending = {}
    /\ pc' = "retry"
    /\ retry_idx' = 1
    /\ UNCHANGED <<files, reader, blacklist, all_streams, offset, pending, attempts,
                   skipped, requests, variant, env, shutdown_flag, streams, ticks, cycles>>

\* The retry loop at a stream whose title is unresolved: one more request.
RetryRequest ==
    /\ pc = "retry"
    /\ retry_idx <= Len(all_streams)
    /\ ~shutdown_flag
    /\ all_streams[retry_idx].title = UnknownTitle
    /\ \E resp \in env.details :
         /\ all_streams' = [all_streams EXCEPT ![retry_idx] = RetryDetail(@, resp)]
         /\ attempts' = [attempts EXCEPT ![retry_idx].retry = Outcome(resp)]
    /\ retry_idx' = retry_idx + 1
    /\ UNCHANGED <<files, reader, blacklist, offset, pending, skipped, requests,
                   variant, env, shutdown_flag, pc, streams, ticks, cycles>>

\* The retry loop at a stream whose title is resolved.
RetrySkip ==
    /\ pc = "retry"
    /\ retry_idx <= Len(all_streams)
    /\ ~shutdown_flag
    /\ all_streams[retry_idx].title # UnknownTitle
    /\ retry_idx' = retry_idx + 1
    /\ UNCHANGED <<files, reader, blacklist, all_streams, offset, pending, attempts,
                   skipped, requests, variant, env, shutdown_flag, pc, streams, ticks, cycles>>

\* The retry loop ends: all streams visited, or if shutdown_flag: break
RetryEnd ==
    /\ pc = "retry"
    /\ retry_idx > Len(all_streams) \/ shutdown_flag
    /\ pc' = "return"
    /\ UNCHANGED <<files, reader, cycle, variant, env, shutdown_flag, streams, ticks, cycles>>

\* live_streams = [...]; return live_streams
Return ==
    /\ pc = "return"
    /\ streams' = LiveFilter(all_streams)
    /\ pc' = "returned"
    /\ UNCHANGED <<files, reader, cycle, variant, env, shutdown_flag, ticks, cycles>>

\* Mutant of MayPersist: the snapshot is written whatever the flag says.
MayPersist_Always == TRUE

\* run_scraper: if not shutdown_flag:
MayPersist == ~shutdown_flag

\* if not shutdown_flag: open(STREAMS_FILE, "w") truncates the file;
\* otherwise the write is skipped and the wait loop is entered. The locals of
\* fetch_live_streams are gone; the position its retry loop had reached is
\* kept when the write is skipped.
Persist ==
    /\ pc = "returned"
    /\ IF MayPersist
       THEN /\ streamsFile' = Truncated
            /\ pc' = "writing"
            /\ retry_idx' = 0
       ELSE /\ pc' = "sleeping"
            /\ UNCHANGED <<streamsFile, retry_idx>>
    /\ ticks' = 0
    /\ all_streams' = << >>
    /\ attempts' = << >>
    /\ offset' = 0
    /\ skipped' = {}
    /\ requests' = << >>
    /\ UNCHANGED <<blacklistFile, featuredFile, cacheFile, cacheBroken, reader, blacklist, pending,
                   streams, variant, env, shutdown_flag, cycles>>

\* open(STREAMS_FILE, "w") raises: except Exception
PersistOpenFails ==
    /\ pc = "returned"
    /\ ~shutdown_flag
    /\ pc' = AfterExcept
    /\ streams' = << >>
    /\ all_streams' = << >>
    /\ attempts' = << >>
    /\ offset' = 0
    /\ retry_idx' = 0
    /\ skipped' = {}
    /\ requests' = << >>
    /\ UNCHANGED <<files, reader, blacklist, pending, variant, env, shutdown_flag, ticks, cycles>>

\* Mutant of WaitOver: the wait runs its full length whatever the flag says.
WaitOver_FullWait == ticks = SleepChecks

\* for _ in range(90): if shutdown_flag: break
WaitOver == ticks = SleepChecks \/ shutdown_flag

\* One checkpoint of the wait begins: await asyncio.sleep(1)
SleepTick ==
    /\ pc = "sleeping"
    /\ ~WaitOver
    /\ pc' = "tick"
    /\ UNCHANGED <<files, reader, cycle, variant, env, shutdown_flag, streams, ticks, cycles>>

\* asyncio.sleep(1) returns
TickEnd ==
    /\ pc = "tick"
    /\ pc' = "sleeping"
    /\ ticks' = ticks + 1
    /\ UNCHANGED <<files, reader, cycle, variant, env, shutdown_flag, streams, cycles>>

\* The wait ends: range(90) is exhausted, or if shutdown_flag: break
WaitEnd ==
    /\ pc = "sleeping"
    /\ WaitOver
    /\ pc' = "loop"
    /\ UNCHANGED <<files, reader, cycle, variant, env, shutdown_flag, streams, ticks, cycles>>

\* signal_handler of the scraper script (SIGINT, SIGTERM)
Shutdown ==
    /\ variant = "scraper"
    /\ ~shutdown_flag
    /\ shutdown_flag' = TRUE
    /\ UNCHANGED <<files, reader, cycle, variant, env, pc, streams, ticks, cycles>>

InitScraper ==
    /\ streamsFile = Missing
    /\ blacklistFile = {}
    /\ featuredFile = << >>
    /\ cacheFile = EmptyCache
    /\ InitLoop
    /\ variant \in {"app", "scraper"}
    /\ env = FullEnv
    /\ hashOrder = <<"A", "B">>
    /\ frame = NoFrame
    /\ calls = [r \in Callers |-> NoCall]
    /\ cacheBroken = FALSE

\* The steps of the Collection Loop.
LoopStep ==
    \/ StartCycle
    \/ LoopExit
    \/ ListPage
    \/ ListPageFails
    \/ ListPageMalformed
    \/ PagingShutdown
    \/ StartGather
    \/ DetailDone
    \/ GatherDone
    \/ RetryRequest
    \/ RetrySkip
    \/ RetryEnd
    \/ Return
    \/ Persist
    \/ PersistOpenFails
    \/ CloseSnapshot
    \/ DumpFails
    \/ BackOff
    \/ SleepTick
    \/ TickEnd
    \/ WaitEnd

NextScraper ==
    \/ EditBlacklist
    \/ LoopStep
    \/ Shutdown

SpecScraper == InitScraper /\ [][NextScraper]_vars

\* ------------------------------------------- the Detail Fetcher on its own
\* The stream_info dicts fetch_stream_detail is called on: those of
\* fetch_live_streams, and dicts whose fields already hold other values.
DetailInputs(v) ==
    { [Candidate(c, v) EXCEPT !.title = ti, !.viewers = n, !.isLive = l] :
        c \in Coins, ti \in {UnknownTitle, <<"T0">>, <<"T1">>}, n \in {0, 3, 5, 7},
        l \in BOOLEAN }

InitDetail ==
    /\ streamsFile = Missing
    /\ blacklistFile = {}
    /\ featuredFile = << >>
    /\ cacheFile = EmptyCache
    /\ hashOrder = <<"A", "B">>
    /\ frame = NoFrame
    /\ calls = [r \in Callers |-> NoCall]
    /\ cacheBroken = FALSE
    /\ variant \in {"app", "scraper"}
    /\ env = FullEnv
    /\ shutdown_flag = FALSE
    /\ pc = "gather"
    /\ blacklist = {}
    /\ all_streams \in { <<s>> : s \in DetailInputs(variant) }
    /\ offset = 0
    /\ pending = {1}
    /\ retry_idx = 0
    /\ streams = << >>
    /\ ticks = 0
    /\ cycles = 1
    /\ attempts = <<NoAttempt>>
    /\ skipped = {}
    /\ requests = <<[offset |-> 0, returned |-> 1]>>

SpecDetail == InitDetail /\ [][DetailDone]_vars

\* ------------------------------- the Collection Loop over a longer listing
\* A run in which the listing endpoint serves more pages of one coin, and the
\* detail endpoint either answers in full or times out.
PagedEnv ==
    [listed |-> PagedListed, coins |-> {CoinA},
     details |-> { r \in DetailResponses :
                     \/ r.outcome = "timeout"
                     \/ r.outcome = "response" /\ r.status = 200
                        /\ DOMAIN r.body = {"numParticipants", "isLive", "title"} },
     cycles |-> PagedCycles]

InitPaging ==
    /\ streamsFile = Missing
    /\ blacklistFile \in {{}, {"A"}}
    /\ featuredFile = << >>
    /\ cacheFile = EmptyCache
    /\ InitLoop
    /\ variant \in {"app", "scraper"}
    /\ env = PagedEnv
    /\ hashOrder = <<"A", "B">>
    /\ frame = NoFrame
    /\ calls = [r \in Callers |-> NoCall]
    /\ cacheBroken = FALSE

\* The blacklist is not edited in this run.
NextPaging ==
    \/ LoopStep
    \/ Shutdown

SpecPaging == InitPaging /\ [][NextPaging]_vars

\* The event loop keeps running the coroutine: every request ends or hits its
\* timeout (ClientTimeout total=15 and total=10) and every sleep returns, so
\* the Collection Loop takes its next step whenever it has one.
LiveShutdown == InitPaging /\ [][NextPaging]_vars /\ WF_vars(LoopStep)

\* --------------------------------------- get_streams in concurrent threads
\* One get_streams call, step by step: each file access is a step of its own,
\* and the calls of different request threads interleave.

\* Lines 223-231: the snapshot is missing or does not parse (the call returns),
\* or it is loaded.
ReadSnapshot(r) ==
    /\ calls[r].pc \in {"idle", "done"}
    /\ calls' = [calls EXCEPT ![r] =
         IF ~streamsFile.exists
         THEN [NoCall EXCEPT !.pc = "done"]
         ELSE IF ~streamsFile.complete
         THEN [NoCall EXCEPT !.pc = "done",
                             !.response = [streams |-> << >>,
                                           error |-> "Failed to load streams"]]
         ELSE [NoCall EXCEPT !.pc = "read", !.streams = streamsFile.items]]
    /\ UNCHANGED <<files, hashOrder, frame, cycle, loop>>

\* Lines 233-235: blacklist, featured_ids and featured_cache are loaded.
LoadLists(r) ==
    /\ calls[r].pc = "read"
    /\ calls' = [calls EXCEPT ![r].pc = "loaded",
                              ![r].blacklist = blacklistFile,
                              ![r].featured_ids = Range(featuredFile),
                              ![r].featured_cache = LoadFeaturedCache]
    /\ UNCHANGED <<files, hashOrder, frame, cycle, loop>>

\* The threads, other than r, that have featured_cache.json open for writing.
Writers(r) == { w \in Callers \ {r} : calls[w].pc = "saving" }

\* Lines 238-257 up to open(FEATURED_CACHE_FILE, "w"): the cache is refreshed
\* and evicted, and the open truncates the file. A thread that has the file
\* open with other content will tear it, as will this one.
SaveOpen(r) ==
    /\ calls[r].pc = "loaded"
    /\ LET c == calls[r]
           featured_cache ==
               EvictCache(RefreshCache(c.streams, c.featured_ids, c.featured_cache),
                          c.featured_ids)
           others == { w \in Writers(r) : calls[w].featured_cache # featured_cache }
       IN  calls' = [w \in Callers |->
                       IF w = r
                       THEN [c EXCEPT !.pc = "saving", !.featured_cache = featured_cache,
                                      !.torn = others # {}]
                       ELSE IF w \in others THEN [calls[w] EXCEPT !.torn = TRUE]
                       ELSE calls[w]]
    /\ cacheBroken' = TRUE
    /\ UNCHANGED <<streamsFile, blacklistFile, featuredFile, cacheFile, hashOrder, frame,
                   cycle, loop>>

\* json.dump has written everything and the file is closed. Two writers of
\* different content that overlapped leave this one's content or a mix of both.
\* (I/O errors of the cache file, which save_featured_cache catches and
\* prints, are not part of these runs.)
SaveClose(r) ==
    /\ calls[r].pc = "saving"
    /\ cacheFile' = calls[r].featured_cache
    /\ cacheBroken' \in (IF calls[r].torn THEN BOOLEAN ELSE {FALSE})
    /\ calls' = [calls EXCEPT ![r].pc = "saved", ![r].torn = FALSE]
    /\ UNCHANGED <<streamsFile, blacklistFile, featuredFile, hashOrder, frame, cycle, loop>>

\* Lines 259-303: the view is built from the locals and returned.
Respond(r) ==
    /\ calls[r].pc = "saved"
    /\ LET c == calls[r]
           live == ProcessStreams(c.streams, c.blacklist, c.featured_ids)
           processed == ProcessedIds(c.streams, c.blacklist, c.featured_ids)
           offline == Backfill(SetIter(c.featured_ids), processed, c.featured_cache)
       IN  calls' = [calls EXCEPT ![r].pc = "done",
                                 ![r].response = [streams |-> live \o offline]]
    /\ UNCHANGED <<files, hashOrder, frame, cycle, loop>>

CallStep ==
    \E r \in Callers :
        \/ ReadSnapshot(r)
        \/ LoadLists(r)
        \/ SaveOpen(r)
        \/ SaveClose(r)
        \/ Respond(r)

\* The snapshots of one coin at most that a cycle can have written.
ReaderSnapshots ==
    { [exists |-> TRUE, items |-> s, complete |-> TRUE] :
        s \in { x \in FetchLiveStreams({}) : Len(x) <= 1 } }

\* A running service whose files do not change: a snapshot, the two lists,
\* and a cache that holds an entry for A.
InitReaders ==
    /\ streamsFile \in ReaderSnapshots
    /\ blacklistFile \in SUBSET Ids
    /\ featuredFile \in FeaturedLists
    /\ cacheFile = [k \in {"A"} |-> OldEntry]
    /\ cacheBroken = FALSE
    /\ hashOrder = <<"A", "B">>
    /\ frame = NoFrame
    /\ calls = [r \in Callers |-> NoCall]
    /\ InitLoop
    /\ variant = "app"
    /\ env = FullEnv

SpecReaders == InitReaders /\ [][CallStep]_vars

\* A run in which the listing endpoint serves coin A or nothing.
ReadersEnv ==
    [listed |-> 1, coins |-> {CoinA}, details |-> DetailResponses, cycles |-> MaxCycles]

\* The service starts with A featured; the cache is empty or was kept from an
\* earlier run.
InitReadersLoop ==
    /\ streamsFile = Missing
    /\ blacklistFile = {}
    /\ featuredFile = <<"A">>
    /\ cacheFile \in {EmptyCache, [k \in {"A"} |-> OldEntry]}
    /\ cacheBroken = FALSE
    /\ hashOrder = <<"A", "B">>
    /\ frame = NoFrame
    /\ calls = [r \in Callers |-> NoCall]
    /\ InitLoop
    /\ variant = "app"
    /\ env = ReadersEnv

NextReadersLoop ==
    \/ CallStep
    \/ CollectCycle
    \/ OpenFails
    \/ CloseSnapshot
    \/ DumpFails
    \/ BackOff
    \/ Wait

SpecReadersLoop == InitReadersLoop /\ [][NextReadersLoop]_vars

\* ================================================================= claims
\* The frame is that of the get_streams call just made: every other step
\* resets it, so the files beside it are the ones the call read and wrote.
Url(m) == <<"https://pump.fun/", m>>

Response == frame.response.streams

\* The ids of the featured set that the live pass of the call emitted.
Emitted(m) ==
    \E i \in 1..Len(frame.streams) :
        frame.streams[i].mintId = m /\ m \notin blacklistFile

\* The synthesized (offline) items of the response for one id.
Synthesized(m) ==
    { i \in 1..Len(Response) : Response[i].url = Url(m) /\ ~Response[i].isLive }

\* C1, as claimed: after any call of get_streams, a call on a missing or
\* unparseable Snapshot included, every key of the persisted FeaturedCache is
\* in the FeaturedList.
C1_AfterAnyCall ==
    frame.outcome # "none" => DOMAIN cacheFile \subseteq Range(featuredFile)

\* C1, amended: after a call of get_streams that loaded the Snapshot, every key
\* of the persisted FeaturedCache is in the FeaturedList.
C1_CacheKeysFeatured ==
    frame.outcome = "ok" => DOMAIN cacheFile \subseteq Range(featuredFile)

\* A call that evicted one entry and kept another.
C1_Witness ==
    /\ frame.outcome = "ok"
    /\ ~(DOMAIN frame.loaded \subseteq Range(featuredFile))
    /\ cacheFile # EmptyCache

\* C2, as claimed: a get_streams call made while the Collection Loop writes
\* the snapshot reads a complete Snapshot, the previous or the new one.
C2_ReadsCompleteSnapshot ==
    (pc = "writing" /\ frame.outcome # "none") => frame.outcome = "ok"

\* C3: a get_streams call that directly follows another one returns the same
\* response and leaves the persisted FeaturedCache as the first one left it.
C3_Idempotent ==
    [][(frame.outcome # "none" /\ frame'.outcome # "none")
        => (frame'.response = frame.response /\ cacheFile' = cacheFile)]_vars

\* A second call in succession, whose view has live and offline items.
C3_Witness ==
    /\ frame.outcome = "ok"
    /\ frame.again
    /\ frame.live # << >>
    /\ frame.offline # << >>
    /\ cacheFile # EmptyCache

\* C4, as claimed: in every call, every featured id that the live pass did not
\* emit and that the FeaturedCache holds has exactly one synthesized item.
C4_BackfillEveryCall ==
    frame.outcome # "none" =>
        \A m \in Range(featuredFile) :
            (~Emitted(m) /\ m \in DOMAIN cacheFile) => Cardinality(Synthesized(m)) = 1

\* C4, amended: in every call that loaded the Snapshot, a featured id that the
\* live pass did not emit and that the FeaturedCache holds after refresh and
\* eviction has exactly one synthesized item, built from the cached fields with
\* viewerCount 0, isLive false and featured true; any other id has none.
C4_Backfill ==
    frame.outcome = "ok" =>
        \A m \in Ids :
            IF m \in Range(featuredFile) /\ ~Emitted(m) /\ m \in DOMAIN cacheFile
            THEN /\ Cardinality(Synthesized(m)) = 1
                 /\ \A i \in Synthesized(m) :
                      /\ Response[i].title = cacheFile[m].title
                      /\ Response[i].thumbnail = cacheFile[m].thumbnail
                      /\ Response[i].streamerName = cacheFile[m].streamerName
                      /\ Response[i].gameCategory = cacheFile[m].gameCategory
                      /\ Response[i].viewerCount = 0
                      /\ Response[i].featured
            ELSE Synthesized(m) = {}

\* A call on a non-empty Snapshot with a blacklisted featured id backfilled
\* and another featured id emitted live.
C4_Witness ==
    /\ frame.outcome = "ok"
    /\ \E m \in Range(featuredFile) \cap blacklistFile :
         /\ \E i \in 1..Len(frame.streams) : frame.streams[i].mintId = m
         /\ Synthesized(m) # {}
    /\ \E m \in Range(featuredFile) : Emitted(m) /\ m \in DOMAIN cacheFile

\* Whether the Snapshot of the call holds a live item of this id.
LiveInSnapshot(k) ==
    \E i \in 1..Len(frame.streams) :
        frame.streams[i].mintId = k /\ frame.streams[i].isLive

\* C5: a reconciliation removes from the FeaturedCache exactly the entries
\* whose key is not featured; an entry whose key is featured stays, unchanged
\* unless the id is live in the Snapshot, and then with the item's fields.
C5_Eviction ==
    frame.outcome = "ok" =>
        LET prior == frame.loaded
            fids == Range(featuredFile)
        IN  /\ (DOMAIN prior) \ (DOMAIN cacheFile) = (DOMAIN prior) \ fids
            /\ \A k \in (DOMAIN prior) \cap fids :
                 /\ k \in DOMAIN cacheFile
                 /\ IF LiveInSnapshot(k)
                    THEN \E i \in 1..Len(frame.streams) :
                           LET s == frame.streams[i]
                           IN  /\ s.mintId = k /\ s.isLive
                               /\ cacheFile[k].title = s.title
                               /\ cacheFile[k].thumbnail = s.thumbnail
                               /\ cacheFile[k].viewerCount = s.viewers
                               /\ cacheFile[k].streamerName = s.streamerName
                               /\ cacheFile[k].gameCategory = s.gameCategory
                               /\ cacheFile[k].url = s.url
                    ELSE cacheFile[k] = prior[k]

\* A call that evicted one entry and refreshed another with new fields.
C5_Witness ==
    /\ frame.outcome = "ok"
    /\ \E k \in DOMAIN frame.loaded : k \notin Range(featuredFile)
    /\ \E k \in (DOMAIN frame.loaded) \cap Range(featuredFile) :
         LiveInSnapshot(k) /\ cacheFile[k] # frame.loaded[k]

\* C6, as claimed: the Snapshot-derived items come first, in Snapshot order,
\* and the backfill items after them, in FeaturedList order.
C6_ViewOrder ==
    frame.outcome = "ok" =>
        LET shown == SelectSeq(frame.streams, LAMBDA s : s.mintId \notin blacklistFile)
            back == SelectSeq(featuredFile,
                              LAMBDA m : ~Emitted(m) /\ m \in DOMAIN cacheFile)
        IN  /\ Len(Response) = Len(shown) + Len(back)
            /\ \A i \in 1..Len(shown) :
                 Response[i].url = shown[i].url /\ Response[i].isLive
            /\ \A i \in 1..Len(back) :
                 /\ Response[Len(shown) + i].url = Url(back[i])
                 /\ ~Response[Len(shown) + i].isLive

\* C7: no Snapshot-derived item of a view has a mintId that the persisted
\* Blacklist holds at the time of the call.
C7_NoBlacklistedLive ==
    frame.outcome = "ok" =>
        \A i \in 1..Len(Response) :
            Response[i].isLive => \A b \in blacklistFile : Response[i].url # Url(b)

\* A call on a Snapshot that holds a blacklisted id beside one that is shown:
\* the id was blacklisted after the cycle that wrote the Snapshot had started.
C7_Witness ==
    /\ frame.outcome = "ok"
    /\ \E i \in 1..Len(frame.streams) : frame.streams[i].mintId \in blacklistFile
    /\ \E i \in 1..Len(Response) : Response[i].isLive


\* C8: a coin whose identifier is in the blacklist loaded at the start of the
\* cycle is no candidate, on whatever page it is listed, is not returned and is
\* not in the Snapshot that the cycle writes.
C8_NoBlacklistedCandidate ==
    /\ \A i \in 1..Len(all_streams) : all_streams[i].mintId \notin blacklist
    /\ \A i \in 1..Len(streams) : streams[i].mintId \notin blacklist
    /\ (pc = "sleeping" /\ ~shutdown_flag) =>
          \A i \in 1..Len(streamsFile.items) : streamsFile.items[i].mintId \notin blacklist

\* A cycle whose second page held a blacklisted coin, with candidates from both
\* pages sent to the detail endpoint.
C8_Witness ==
    /\ pc = "returned"
    /\ 2 \in skipped
    /\ offset = Limit
    /\ Len(all_streams) > 0
    /\ \A i \in 1..Len(attempts) : attempts[i].first # "none"

\* C9: what fetch_live_streams returns, and every Snapshot written, holds only
\* items whose isLive is true.
C9_OnlyLive ==
    /\ \A i \in 1..Len(streams) : streams[i].isLive
    /\ \A i \in 1..Len(streamsFile.items) : streamsFile.items[i].isLive

\* A return that kept one candidate and dropped another, after a retry.
C9_Witness ==
    /\ pc = "returned"
    /\ streams # << >>
    /\ Len(streams) < Len(all_streams)
    /\ \E i \in 1..Len(attempts) : attempts[i].retry # "none"

\* C10, as claimed: in a cycle without shutdown, a candidate whose two detail
\* requests both failed ends with the fallback title.
C10_TitleFallback ==
    (pc = "returned" /\ ~shutdown_flag) =>
        \A i \in 1..Len(all_streams) :
            (attempts[i].first = "failed" /\ attempts[i].retry = "failed")
                => all_streams[i].title = FallbackTitle(all_streams[i].streamerName)

\* Positions of the cycle at which the paging loop has been left.
AfterPaging == pc \in {"enrich", "gather", "retry", "return", "returned"}

\* C11: in a cycle in which no page request raised and no shutdown was
\* requested, the k-th request asks for offset (k-1)*Limit, every request but
\* the last returned Limit items, and once the paging has ended the last
\* request returned fewer than Limit items.
C11_PagingStopRule ==
    (PageErrors = {} /\ ~shutdown_flag) =>
        /\ \A k \in 1..Len(requests) : requests[k].offset = (k - 1) * Limit
        /\ \A k \in 1..(Len(requests) - 1) : requests[k].returned = Limit
        /\ AfterPaging =>
              /\ requests # << >>
              /\ requests[Len(requests)].returned < Limit

\* Two full pages and a short third one: three requests.
C11_Witness ==
    /\ pc = "returned"
    /\ ~shutdown_flag
    /\ PageErrors = {}
    /\ Len(requests) = 3
    /\ requests[3].returned = 1

\* C12, as claimed: once a page request of the cycle has raised, no further
\* page request is made in that cycle, no candidate of the cycle is sent to the
\* detail endpoint, and the cycle's result is empty.
C12_ListingErrorEmptiesCycle ==
    PageErrors # {} =>
        /\ \A k \in PageErrors : k = Len(requests)
        /\ pending = {}
        /\ \A i \in 1..Len(attempts) : attempts[i] = NoAttempt
        /\ pc = "returned" => streams = << >>

\* The cycle ran in full: the paging ended on a short page, an empty page or
\* an error, every candidate had its detail request, the retry pass visited
\* every candidate, and the value returned is the live-filtered candidates.
CompleteCycle ==
    /\ requests # << >>
    /\ requests[Len(requests)].returned < Limit
    /\ \A i \in 1..Len(all_streams) : attempts[i].first # "none"
    /\ retry_idx > Len(all_streams)
    /\ streams = LiveFilter(all_streams)

\* C13: the snapshot file changes only when a cycle that ran in full, with no
\* shutdown requested up to the check before the write, opens it, and when that
\* write completes; a cycle in which shutdown was requested before its
\* enrichment had finished writes nothing.
C13_NoPartialSnapshot ==
    [][streamsFile' # streamsFile =>
         \/ pc = "writing"
         \/ pc = "returned" /\ ~shutdown_flag /\ CompleteCycle]_vars

\* The loop has stopped after a cycle whose retry pass the shutdown request
\* cut short before its first stream: live candidates were returned, and
\* nothing was written.
C13_Witness ==
    /\ pc = "stopped"
    /\ streamsFile = Missing
    /\ retry_idx = 1
    /\ streams # << >>

\* C14, as claimed: a write of the Persisting step can fail at any point, when
\* the file is opened or part-way through, and leave the complete Snapshot of
\* the previous successful cycle; so no step takes the snapshot file from a
\* complete Snapshot to anything but a complete Snapshot.
C14_WriteFailureKeepsSnapshot ==
    [][streamsFile.complete => streamsFile'.complete]_vars

\* C15, as claimed: a get_streams call that finds the Snapshot missing or
\* cannot parse it returns an empty streams list together with an error
\* indicator.
C15_ErrorIndicator ==
    frame.outcome \in {"missing", "failed"} =>
        /\ frame.response.streams = << >>
        /\ "error" \in DOMAIN frame.response

\* C16: a finished fetch_stream_detail task returns to gather, whatever the
\* request ended in, and touches its own stream only; after a failure
\* (exception, status other than 200) the stream has viewers 0 and isLive false
\* and every other field as before, and after a 200 answer without a non-empty
\* title the title is as before.
C16_DetailNeverRaises ==
    [][\A i \in pending \ pending' :
         LET before == all_streams[i]
             after == all_streams'[i]
         IN  /\ pc' = pc
             /\ Len(all_streams') = Len(all_streams)
             /\ \A j \in (1..Len(all_streams)) \ {i} : all_streams'[j] = all_streams[j]
             /\ attempts'[i].first = "failed" =>
                   after = [before EXCEPT !.viewers = 0, !.isLive = FALSE]
             /\ attempts'[i].first = "untitled" => after.title = before.title]_vars

\* A failed request for a stream that had a title of its own.
C16_Witness ==
    /\ pending = {}
    /\ retry_idx = 0
    /\ attempts = <<[first |-> "failed", retry |-> "none"]>>
    /\ all_streams[1].title = <<"T0">>
    /\ all_streams[1].viewers = 0
    /\ ~all_streams[1].isLive

\* C17: the loop stops only when shutdown has been requested; a cycle is left
\* for the top of the loop only through the wait, through the back-off, or
\* with shutdown requested; the wait is entered only after a completed write or
\* a write skipped for shutdown (or between two of its own one-second
\* checkpoints), never after an exception; the back-off is
\* followed by the top of the loop, and the top of the loop, absent shutdown,
\* by a new fetch.
C17_BackOffAndResume ==
    [][/\ pc' = "stopped" => shutdown_flag
       /\ (pc' = "loop" /\ pc # "loop") => (pc \in {"backoff", "sleeping"} \/ shutdown_flag)
       /\ (pc' = "sleeping" /\ pc # "sleeping") =>
             \/ pc = "writing" /\ streamsFile'.complete
             \/ pc = "returned" /\ shutdown_flag
             \/ pc = "tick"
       /\ (pc' = "backoff" /\ pc # "backoff") => pc \in {"paging", "returned", "writing"}
       /\ pc = "backoff" => pc' \in {"backoff", "loop"}
       /\ (pc = "loop" /\ ~shutdown_flag) => pc' \in {"loop", "paging"}]_vars

\* The back-off of a second failing cycle in a row: the first one failed in
\* json.dump and left the file truncated, this one failed while paging.
C17_Witness ==
    /\ pc = "backoff"
    /\ ~shutdown_flag
    /\ cycles = 2
    /\ streamsFile = Truncated
    /\ requests # << >>

\* C18: once shutdown is requested the loop eventually stops, wherever it
\* was; after the request no new cycle and no new checkpoint of the wait
\* begins, and the count of checkpoints of a wait only grows by the one whose
\* sleep was under way when the request arrived (it restarts at 0 when a wait
\* is entered).
C18_ShutdownLiveness ==
    /\ shutdown_flag ~> pc = "stopped"
    /\ [][shutdown_flag =>
            /\ pc' = "paging" => pc = "paging"
            /\ pc' = "tick" => pc = "tick"
            /\ ticks' # ticks => (ticks' = 0 \/ (pc = "tick" /\ ticks' = ticks + 1))]_vars

\* The loop has stopped after a wait that a shutdown request ended early: the
\* snapshot was written and one checkpoint of the wait had passed.
C18_Witness ==
    /\ pc = "stopped"
    /\ shutdown_flag
    /\ streamsFile.complete
    /\ ticks = 1
    /\ ticks < SleepChecks

\* The cache that the runs of SpecReaders start with.
StartCache == [k \in {"A"} |-> OldEntry]

\* What one get_streams call that runs alone on the current files persists and
\* returns, when the cache file holds the given cache.
Alone(loaded) ==
    LET strs == streamsFile.items
        fids == Range(featuredFile)
        featured_cache == EvictCache(RefreshCache(strs, fids, loaded), fids)
        live == ProcessStreams(strs, blacklistFile, fids)
        processed == ProcessedIds(strs, blacklistFile, fids)
        offline == Backfill(SetIter(fids), processed, featured_cache)
    IN  [cache |-> featured_cache, response |-> [streams |-> live \o offline]]

\* C19, as claimed: over unchanged files, every concurrent get_streams call
\* returns the view of a call running alone, and once all calls have finished
\* the persisted FeaturedCache is the one a single call leaves.
C19_ConcurrentCallsAgree ==
    /\ \A r \in Callers :
         calls[r].pc = "done" => calls[r].response = Alone(StartCache).response
    /\ ((\A r \in Callers : calls[r].pc \in {"idle", "done"})
          /\ (\E r \in Callers : calls[r].pc = "done"))
         => (~cacheBroken /\ cacheFile = Alone(StartCache).cache)

\* The persisted FeaturedCache holds an entry for m; while a save is under way
\* the content it replaces still counts.
Holding(m) ==
    /\ m \in DOMAIN cacheFile
    /\ ~cacheBroken \/ (\E w \in Callers : calls[w].pc = "saving")

\* C20, as claimed: under any interleaving of get_streams calls and snapshot
\* writes, a featured mintId for which the persisted FeaturedCache holds an
\* entry keeps its entry.
C20_EntryNeverLost ==
    [][\A m \in Range(featuredFile) :
         (Holding(m) /\ m \in Range(featuredFile')) => Holding(m)']_vars

\* No two items of the list carry the same mintId.
UniqueMintIds(list) ==
    \A i, j \in 1..Len(list) : list[i].mintId = list[j].mintId => i = j

\* No page the listing endpoint returned in this cycle repeats an identifier
\* within the page. With an empty blacklist every coin of a page is a
\* candidate, so the page asked at offset o is all_streams[o+1 .. o+returned].
PagesDuplicateFree ==
    \A k \in 1..Len(requests) :
        requests[k].returned > 0 =>
            \A i, j \in (requests[k].offset + 1)..(requests[k].offset + requests[k].returned) :
                all_streams[i].mintId = all_streams[j].mintId => i = j

\* C21, as claimed: the list a cycle hands to json.dump (streams at the step
\* that opens the snapshot file; CloseSnapshot writes it unchanged) holds at
\* most one item per mintId, also when the same identifier came back on more
\* than one page of the cycle. Pages that are duplicate-free in themselves are
\* assumed, and an empty blacklist, so that the pages can be read off
\* all_streams.
C21_SnapshotUniqueMintId ==
    [][(/\ pc = "returned"
        /\ pc' = "writing"
        /\ blacklist = {}
        /\ PagesDuplicateFree) => UniqueMintIds(streams)]_vars

====
